---- MODULE Spec2Model ----
(***************************************************************************)
(* Interactive tournament (merge) sort: the comparator-driven merge sort   *)
(* of tui.go, the console merge sort of main.go, and the goroutines of     *)
(* RunTUI (sorter, collector, relay, Bubbletea event loop, launching       *)
(* thread).                                                                *)
(*                                                                         *)
(* Items are strings in the program; only their equality matters to the    *)
(* code, so an item is a number of 1..NumItems here.                       *)
(*                                                                         *)
(* A comparison callback blocks its caller until an answer exists.  The    *)
(* sorts are therefore computed against the sequence of answers obtained   *)
(* so far: a sort whose next callback has no answer yet is "halted" inside *)
(* that callback, and the state of the (deterministic, sequential) sort is *)
(* a function of its input and of the answers it has been given.           *)
(***************************************************************************)
EXTENDS Integers, Sequences, FiniteSets, TLC

MaxLen == 3
NumItems == 3

Items == 1..NumItems

\* The item lists of up to n items.
SeqsUpTo(n) == UNION {[1..m -> Items] : m \in 0..n}

\* "No list yet": no item is 0.
None == <<0>>

VARIABLES
    items,          \* the input list
    oracle,         \* the fake oracle of a direct run of the engine
    answers,        \* the answers the comparison callback has returned so far
    sorted,         \* the result of mergeSortWithCmp, None until it returns
    sorterPc,       \* sorter goroutine (tui.go 29-41)
    sortDoneClosed, \* close(sortDoneCh) has run
    compClosed,     \* close(compCh) has run
    collPc,         \* collector goroutine (tui.go 48-54)
    collVal,        \* its local s
    sortedReady,    \* the buffered channel sortedReady (capacity 1)
    relayPc,        \* relay goroutine (tui.go 58-74)
    relayReq,       \* the request it holds
    uiPc,           \* Bubbletea event loop: loop, sending (inside Update), exited
    m,              \* the Bubbletea model
    uiSend,         \* the blocked send of Update: the reply slot and the value
    quitCmd,        \* a tea.Quit command is out: its QuitMsg will end the loop
    mainPc,         \* launching thread (tui.go 76-83)
    ret,            \* what RunTUI returned, None until it returns
    shown,          \* history: the pairs Update received in cmpRequestMsg
    sent,           \* history: the reply sends Update began, <<slot, value>>
    quitsSeen,      \* history: the quitMsg events Update received
    quitKey,        \* history: Update handled the quit key
    idleKey,        \* history: Update handled a directional key with no request
    stdin,          \* console mode: the characters of the input stream
    outPath,        \* console mode: the -o flag was given
    conPc,          \* console mode: where main is (main.go 89-104)
    conRun,         \* console mode: what interactiveMergeSort came to
    printed,        \* the ranking printed on the console, None if none
    written,        \* the ranking in the output file, None if none
    exitCode        \* the exit status of the process, Running if none yet

(***************************************************************************)
(* The engine: mergeSortWithCmp / mergeWithCmp (tui.go).                   *)
(***************************************************************************)

\* F(v), with v evaluated once (a local variable of the code).
Bind(v, F(_)) == CHOOSE r \in {F(x) : x \in {v}} : TRUE

\* The state threaded through a sort: the comparison calls issued so far (in
\* order, as pairs <<A, B>>) and whether the sort is halted inside a callback.
NoCalls == [calls |-> <<>>, halted |-> FALSE]

\* The k-th call of the comparison callback with the answers ans obtained so
\* far: the call is issued; it returns ans[k], or has not returned yet.
cmp(a, b, ans, st) ==
    LET k == Len(st.calls) + 1
        st1 == [st EXCEPT !.calls = Append(@, <<a, b>>)]
    IN  IF k <= Len(ans)
        THEN [st |-> st1, ret |-> ans[k]]
        ELSE [st |-> [st1 EXCEPT !.halted = TRUE], ret |-> FALSE]

\* The arguments of the comparison at cursors i, j (1-based here).
cmpArgsSwapped(left, right, i, j) == <<right[j], left[i]>>
cmpArgs(left, right, i, j) == <<left[i], right[j]>>

\* The condition of the comparing loop.
mergeMoreShort(left, right, i, j) == i <= Len(left) /\ j < Len(right)
mergeMore(left, right, i, j) == i <= Len(left) /\ j <= Len(right)

\* The two trailing loops: the rest of left, then the rest of right.
mergeRestLeftOnly(left, right, i, j, out) == out \o SubSeq(left, i, Len(left))
mergeRest(left, right, i, j, out) ==
    out \o SubSeq(left, i, Len(left)) \o SubSeq(right, j, Len(right))

RECURSIVE mergeLoop(_, _, _, _, _, _, _)
mergeLoop(left, right, i, j, out, ans, st) ==
    IF mergeMore(left, right, i, j)
    THEN Bind(cmp(cmpArgs(left, right, i, j)[1], cmpArgs(left, right, i, j)[2], ans, st),
              LAMBDA c :
                  IF c.st.halted
                  THEN [out |-> out, st |-> c.st]
                  ELSE IF c.ret
                       THEN mergeLoop(left, right, i + 1, j, Append(out, left[i]),
                                      ans, c.st)
                       ELSE mergeLoop(left, right, i, j + 1, Append(out, right[j]),
                                      ans, c.st))
    ELSE [out |-> mergeRest(left, right, i, j, out), st |-> st]

mergeWithCmp(left, right, ans, st) == mergeLoop(left, right, 1, 1, <<>>, ans, st)

RECURSIVE mergeSortWithCmp(_, _, _)
mergeSortWithCmp(list, ans, st) ==
    IF Len(list) <= 1
    THEN [out |-> list, st |-> st]
    ELSE LET mid == Len(list) \div 2
         IN  Bind(mergeSortWithCmp(SubSeq(list, 1, mid), ans, st),
                  LAMBDA left :
                      IF left.st.halted
                      THEN left
                      ELSE Bind(mergeSortWithCmp(SubSeq(list, mid + 1, Len(list)),
                                                 ans, left.st),
                                LAMBDA right :
                                    IF right.st.halted
                                    THEN right
                                    ELSE mergeWithCmp(left.out, right.out, ans,
                                                      right.st)))

(***************************************************************************)
(* The console sort: interactiveMergeSort / interactiveMerge /             *)
(* askPreference (main.go), reading the shared input stream.               *)
(*                                                                         *)
(* The input stream is a sequence of characters.  The state threaded       *)
(* through a console sort: the comparisons asked, the position in the      *)
(* stream, the prompts printed, and the exit status of the process (-1     *)
(* while it runs).                                                         *)
(***************************************************************************)

Running == -1

ConsoleStart == [calls |-> <<>>, pos |-> 1, prompts |-> 0, exit |-> Running]

Spaces == {" ", "\t", "\n", "\r"}

\* reader.ReadString('\n') from position pos: the characters up to and
\* including the first newline, or an error when the stream ends first.
ReadString(stream, pos) ==
    LET nl == {k \in pos..Len(stream) : stream[k] = "\n"}
    IN  IF nl = {}
        THEN [line |-> SubSeq(stream, pos, Len(stream)), err |-> TRUE,
              pos |-> Len(stream) + 1]
        ELSE LET e == CHOOSE k \in nl : \A k2 \in nl : k <= k2
             IN  [line |-> SubSeq(stream, pos, e), err |-> FALSE, pos |-> e + 1]

\* strings.TrimSpace: leading and trailing white space removed.
TrimSpaceNot(s) == s
TrimSpace(s) ==
    LET keep == {k \in 1..Len(s) : s[k] \notin Spaces}
    IN  IF keep = {}
        THEN <<>>
        ELSE LET lo == CHOOSE k \in keep : \A k2 \in keep : k <= k2
                 hi == CHOOSE k \in keep : \A k2 \in keep : k >= k2
             IN  SubSeq(s, lo, hi)

\* strings.ToLower on the letters the answers are made of.
LowerChar(c) ==
    CASE c = "A" -> "a" [] c = "B" -> "b" [] c = "Q" -> "q" [] c = "U" -> "u"
      [] c = "I" -> "i" [] c = "T" -> "t" [] c = "E" -> "e" [] c = "X" -> "x"
      [] c = "N" -> "n" [] OTHER -> c

ToLower(s) == [k \in 1..Len(s) |-> LowerChar(s[k])]

\* The prompt loop of askPreference, from the state st.
RECURSIVE askLoop(_, _)
askLoop(stream, st) ==
    Bind(ReadString(stream, st.pos), LAMBDA r :
    Bind([st EXCEPT !.prompts = @ + 1, !.pos = r.pos], LAMBDA st1 :
        IF r.err
        THEN [st |-> [st1 EXCEPT !.exit = 1], ret |-> FALSE]
        ELSE Bind(ToLower(TrimSpace(r.line)), LAMBDA resp :
                 IF resp \in {<<"1">>, <<"a">>}
                 THEN [st |-> st1, ret |-> TRUE]
                 ELSE IF resp \in {<<"2">>, <<"b">>}
                      THEN [st |-> st1, ret |-> FALSE]
                      ELSE IF resp \in {<<"q">>, <<"q", "u", "i", "t">>,
                                        <<"e", "x", "i", "t">>}
                           THEN [st |-> [st1 EXCEPT !.exit = 0], ret |-> FALSE]
                           ELSE askLoop(stream, st1))))

askPreference(a, b, stream, st) ==
    askLoop(stream, [st EXCEPT !.calls = Append(@, <<a, b>>)])

RECURSIVE interactiveMergeLoop(_, _, _, _, _, _, _)
interactiveMergeLoop(left, right, i, j, out, stream, st) ==
    IF i <= Len(left) /\ j <= Len(right)
    THEN Bind(askPreference(left[i], right[j], stream, st), LAMBDA c :
             IF c.st.exit # Running
             THEN [out |-> out, st |-> c.st]
             ELSE IF c.ret
                  THEN interactiveMergeLoop(left, right, i + 1, j,
                                            Append(out, left[i]), stream, c.st)
                  ELSE interactiveMergeLoop(left, right, i, j + 1,
                                            Append(out, right[j]), stream, c.st))
    ELSE [out |-> out \o SubSeq(left, i, Len(left)) \o SubSeq(right, j, Len(right)),
          st |-> st]

interactiveMerge(left, right, stream, st) ==
    interactiveMergeLoop(left, right, 1, 1, <<>>, stream, st)

RECURSIVE interactiveMergeSort(_, _, _)
interactiveMergeSort(list, stream, st) ==
    IF Len(list) <= 1
    THEN [out |-> list, st |-> st]
    ELSE LET mid == Len(list) \div 2
         IN  Bind(interactiveMergeSort(SubSeq(list, 1, mid), stream, st),
                  LAMBDA left :
                      IF left.st.exit # Running
                      THEN left
                      ELSE Bind(interactiveMergeSort(SubSeq(list, mid + 1, Len(list)),
                                                     stream, left.st),
                                LAMBDA right :
                                    IF right.st.exit # Running
                                    THEN right
                                    ELSE interactiveMerge(left.out, right.out, stream,
                                                          right.st)))

\* The input stream of a user who types 1 for "prefer A" and 2 for "prefer B".
RECURSIVE LinesOf(_)
LinesOf(ans) ==
    IF ans = <<>>
    THEN <<>>
    ELSE (IF Head(ans) THEN <<"1", "\n">> ELSE <<"2", "\n">>) \o LinesOf(Tail(ans))

(***************************************************************************)
(* State shared by the specifications.                                     *)
(***************************************************************************)

sortVars == <<items, oracle, answers, sorted>>

tuiVars == <<sorterPc, sortDoneClosed, compClosed, collPc, collVal, sortedReady,
             relayPc, relayReq, uiPc, m, uiSend, quitCmd, mainPc, ret,
             shown, sent, quitsSeen, quitKey, idleKey>>

conVars == <<stdin, outPath, conPc, conRun, printed, written, exitCode>>

vars == <<sortVars, tuiVars, conVars>>

\* initialModel(compCh): no pair, no reply slot (0 is nil).
initialModel == [a |-> 0, b |-> 0, req |-> 0, status |-> "waiting"]

NoReq == [id |-> 0, A |-> 0, B |-> 0]

\* RunTUI up to the start of p.Run: the channels are open and empty, the
\* three goroutines are at their first statement.
TuiStart ==
    /\ sorterPc = "sort"
    /\ sortDoneClosed = FALSE
    /\ compClosed = FALSE
    /\ collPc = "recv"
    /\ collVal = None
    /\ sortedReady = <<>>
    /\ relayPc = "select"
    /\ relayReq = NoReq
    /\ uiPc = "loop"
    /\ m = initialModel
    /\ uiSend = NoReq
    /\ quitCmd = FALSE
    /\ mainPc = "run"
    /\ ret = None
    /\ shown = <<>>
    /\ sent = <<>>
    /\ quitsSeen = 0
    /\ quitKey = FALSE
    /\ idleKey = FALSE

\* main in console mode before it calls interactiveMergeSort: nothing is
\* printed or written, the process runs.
MainStart ==
    /\ conPc = "sort"
    /\ conRun = [out |-> <<>>, st |-> ConsoleStart]
    /\ printed = None
    /\ written = None
    /\ exitCode = Running

\* The console is not used: no input, no -o flag.
NoConsole ==
    /\ stdin = <<>>
    /\ outPath = FALSE
    /\ MainStart

(***************************************************************************)
(* A direct run of the engine against a fake oracle: either any answers,   *)
(* or the answers of a strict total order (rank 1 is the most preferred),  *)
(* or the answers of a comparison on a key with equal keys (a grade: the   *)
(* items of the higher grade are preferred, and there are ties).           *)
(***************************************************************************)

Orders == {r \in [Items -> 1..NumItems] : \A x, y \in Items : x # y => r[x] # r[y]}

prefer(rank, a, b) == rank[a] < rank[b]

Grades == [Items -> 0..1]

preferGrade(grade, a, b) == grade[a] > grade[b]

AnyAnswers == [kind |-> "any", rank |-> <<>>]

\* The engine on the answers given so far.
Engine == mergeSortWithCmp(items, answers, NoCalls)

\* The comparison the engine is waiting for.
LastCall(st) == st.calls[Len(st.calls)]

SortInit ==
    /\ items \in SeqsUpTo(MaxLen)
    /\ oracle \in {AnyAnswers} \cup {[kind |-> "order", rank |-> r] : r \in Orders}
                              \cup {[kind |-> "grade", rank |-> g] : g \in Grades}
    /\ answers = <<>>
    /\ sorted = None
    /\ TuiStart
    /\ NoConsole

\* The callback returns v: any boolean.
OracleAnswerAny(v) ==
    /\ oracle.kind = "any"
    /\ sorted = None
    /\ Engine.st.halted
    /\ answers' = Append(answers, v)
    /\ UNCHANGED <<conVars, items, oracle, sorted, tuiVars>>

\* The callback returns what the order says of the pair it was called with.
OracleAnswerOrder ==
    /\ oracle.kind = "order"
    /\ sorted = None
    /\ Engine.st.halted
    /\ answers' = Append(answers, prefer(oracle.rank, LastCall(Engine.st)[1],
                                         LastCall(Engine.st)[2]))
    /\ UNCHANGED <<conVars, items, oracle, sorted, tuiVars>>

\* The callback returns what the grade says of the pair it was called with.
OracleAnswerGrade ==
    /\ oracle.kind = "grade"
    /\ sorted = None
    /\ Engine.st.halted
    /\ answers' = Append(answers, preferGrade(oracle.rank, LastCall(Engine.st)[1],
                                              LastCall(Engine.st)[2]))
    /\ UNCHANGED <<conVars, items, oracle, sorted, tuiVars>>

\* mergeSortWithCmp returns.
SortReturn ==
    /\ sorted = None
    /\ ~Engine.st.halted
    /\ sorted' = Engine.out
    /\ UNCHANGED <<conVars, items, oracle, answers, tuiVars>>

SortNext ==
    \/ \E v \in BOOLEAN : OracleAnswerAny(v)
    \/ OracleAnswerOrder
    \/ OracleAnswerGrade
    \/ SortReturn

SpecSort == SortInit /\ [][SortNext]_vars

(***************************************************************************)
(* RunTUI (tui.go 21-84) and the Bubbletea model (tui.go 90-156).          *)
(*                                                                         *)
(* Channels: compCh, doneCh and every reply slot are unbuffered, so a send *)
(* and its receive are one step of both goroutines, except the reply send  *)
(* of Update, which is kept in two steps (the sender blocked, then the     *)
(* receiver taking the value) because the event loop handles nothing else  *)
(* while it is blocked.  sortedReady holds one value.                      *)
(*                                                                         *)
(* Bubbletea: p.Send(msg) blocks until the event loop receives msg, and    *)
(* returns at once when the program has ended.  The event loop calls       *)
(* Update on one message at a time.  A tea.Quit command returned by Update *)
(* is run concurrently and delivers a QuitMsg to the loop, which ends the  *)
(* loop when it receives it; until then the loop keeps handling messages.  *)
(* A failure of p.Run ends the process (os.Exit(1)) and is left out.       *)
(***************************************************************************)

DirectionKeys == {"left", "h", "right", "l"}
QuitKeys == {"q", "ctrl+c"}
Keys == DirectionKeys \cup QuitKeys \cup {"x"}

\* The sorter goroutine's sort, on the replies received so far.
Sorter == mergeSortWithCmp(items, answers, NoCalls)

\* The request of the callback the sorter is in: a fresh reply slot per
\* call, identified by the number of the call.
curReqFirst ==
    LET c == Sorter.st.calls[1]
    IN  [id |-> 1, A |-> c[1], B |-> c[2]]
curReq ==
    LET c == LastCall(Sorter.st)
    IN  [id |-> Len(Sorter.st.calls), A |-> c[1], B |-> c[2]]

\* The code never inspects an item, so the lists RunTUI is started on are
\* taken up to renaming: the k-th new item of a list is item k.  main calls
\* RunTUI with at least one item.
Canonical(list) ==
    \A k \in 1..Len(list) : \A x \in 1..(list[k] - 1) : \E j \in 1..(k - 1) : list[j] = x

TuiInit ==
    /\ items \in {list \in SeqsUpTo(MaxLen) : list # <<>> /\ Canonical(list)}
    /\ oracle = AnyAnswers
    /\ answers = <<>>
    /\ sorted = None
    /\ TuiStart
    /\ NoConsole

\* What the sorter does once mergeSortWithCmp has returned: doneCh <- sorted
\* comes before the two close calls.
sorterAfterSortCloses == "closeSortDone"
sorterAfterSort == "deliver"

\* The sorter runs mergeSortWithCmp up to its next callback, or to its end.
SorterRun ==
    /\ sorterPc = "sort"
    /\ IF Sorter.st.halted
       THEN sorterPc' = "send" /\ sorted' = sorted
       ELSE sorterPc' = sorterAfterSort /\ sorted' = Sorter.out
    /\ UNCHANGED <<conVars, items, oracle, answers, sortDoneClosed, compClosed, collPc, collVal,
                   sortedReady, relayPc, relayReq, uiPc, m, uiSend, quitCmd, mainPc,
                   ret, shown, sent, quitsSeen, quitKey, idleKey>>

\* compCh <- req, received by the relay's select.
SorterSendReq ==
    /\ sorterPc = "send"
    /\ relayPc = "select"
    /\ sorterPc' = "recv"
    /\ relayPc' = "sendReq"
    /\ relayReq' = curReq
    /\ UNCHANGED <<conVars, sortVars, sortDoneClosed, compClosed, collPc, collVal, sortedReady,
                   uiPc, m, uiSend, quitCmd, mainPc, ret, shown, sent, quitsSeen,
                   quitKey, idleKey>>

\* What Update does to the model once its reply send has completed.
sentModelKeepsReq(mm, v) ==
    [mm EXCEPT !.status = IF v THEN "sent left" ELSE "sent right"]
sentModel(mm, v) ==
    [mm EXCEPT !.req = 0, !.status = IF v THEN "sent left" ELSE "sent right"]

\* return <-req.Resp: the sorter takes the value Update is sending on the
\* slot of its request; Update clears the pending slot and returns.
SorterRecvReply ==
    /\ sorterPc = "recv"
    /\ uiPc = "sending"
    /\ uiSend.id = curReq.id
    /\ answers' = Append(answers, uiSend.val)
    /\ sorterPc' = "sort"
    /\ uiPc' = "loop"
    /\ m' = sentModel(m, uiSend.val)
    /\ uiSend' = NoReq
    /\ UNCHANGED <<conVars, items, oracle, sorted, sortDoneClosed, compClosed, collPc, collVal,
                   sortedReady, relayPc, relayReq, quitCmd, mainPc, ret, shown, sent,
                   quitsSeen, quitKey, idleKey>>

\* doneCh <- sorted, received by the collector.
SorterDeliver ==
    /\ sorterPc = "deliver"
    /\ collPc = "recv"
    /\ sorterPc' = "closeSortDone"
    /\ collPc' = "ready"
    /\ collVal' = sorted
    /\ UNCHANGED <<conVars, sortVars, sortDoneClosed, compClosed, sortedReady, relayPc, relayReq,
                   uiPc, m, uiSend, quitCmd, mainPc, ret, shown, sent, quitsSeen,
                   quitKey, idleKey>>

SorterCloseSortDone ==
    /\ sorterPc = "closeSortDone"
    /\ sortDoneClosed' = TRUE
    /\ sorterPc' = "closeComp"
    /\ UNCHANGED <<conVars, sortVars, compClosed, collPc, collVal, sortedReady, relayPc, relayReq,
                   uiPc, m, uiSend, quitCmd, mainPc, ret, shown, sent, quitsSeen,
                   quitKey, idleKey>>

SorterCloseComp ==
    /\ sorterPc = "closeComp"
    /\ compClosed' = TRUE
    /\ sorterPc' = "done"
    /\ UNCHANGED <<conVars, sortVars, sortDoneClosed, collPc, collVal, sortedReady, relayPc,
                   relayReq, uiPc, m, uiSend, quitCmd, mainPc, ret, shown, sent,
                   quitsSeen, quitKey, idleKey>>

\* The buffer of sortedReady after sortedReady <- s.
putReadyLost(buf, s) == buf
putReadyEmpty(buf, s) == Append(buf, <<>>)
putReady(buf, s) == Append(buf, s)

\* sortedReady <- s: the buffer has room, the send does not block.
CollectorReady ==
    /\ collPc = "ready"
    /\ Len(sortedReady) < 1
    /\ sortedReady' = putReady(sortedReady, collVal)
    /\ collPc' = "sendQuit"
    /\ UNCHANGED <<conVars, sortVars, sorterPc, sortDoneClosed, compClosed, collVal, relayPc,
                   relayReq, uiPc, m, uiSend, quitCmd, mainPc, ret, shown, sent,
                   quitsSeen, quitKey, idleKey>>

\* Update(quitMsg): return m, tea.Quit.
UpdateQuitMsg ==
    /\ quitCmd' = TRUE
    /\ quitsSeen' = quitsSeen + 1
    /\ UNCHANGED <<uiPc, m, uiSend, shown, sent, quitKey, idleKey>>

\* p.Send(msg) after the program has ended: nothing is delivered.
SendDropped ==
    UNCHANGED <<uiPc, m, uiSend, quitCmd, shown, sent, quitsSeen, quitKey, idleKey>>

\* p.Send(quitMsg{}) of the collector.
CollectorSendQuit ==
    /\ collPc = "sendQuit"
    /\ \/ uiPc = "loop" /\ UpdateQuitMsg
       \/ uiPc = "exited" /\ SendDropped
    /\ collPc' = "done"
    /\ UNCHANGED <<conVars, sortVars, sorterPc, sortDoneClosed, compClosed, collVal, sortedReady,
                   relayPc, relayReq, mainPc, ret>>

\* The select of the relay finds compCh closed.
RelayCompClosed ==
    /\ relayPc = "select"
    /\ compClosed
    /\ relayPc' = "quitClosed"
    /\ UNCHANGED <<conVars, sortVars, sorterPc, sortDoneClosed, compClosed, collPc, collVal,
                   sortedReady, relayReq, uiPc, m, uiSend, quitCmd, mainPc, ret, shown,
                   sent, quitsSeen, quitKey, idleKey>>

\* The select of the relay finds sortDoneCh closed.
RelaySortDone ==
    /\ relayPc = "select"
    /\ sortDoneClosed
    /\ relayPc' = "quitDone"
    /\ UNCHANGED <<conVars, sortVars, sorterPc, sortDoneClosed, compClosed, collPc, collVal,
                   sortedReady, relayReq, uiPc, m, uiSend, quitCmd, mainPc, ret, shown,
                   sent, quitsSeen, quitKey, idleKey>>

\* m.a = req.A; m.b = req.B; m.req = req.Resp; m.status = ...
storeRequestSwapped(mm, req) ==
    [a |-> req.B, b |-> req.A, req |-> req.id, status |-> "choose"]
storeRequest(mm, req) ==
    [a |-> req.A, b |-> req.B, req |-> req.id, status |-> "choose"]

\* Update(cmpRequestMsg): the pair and the reply slot become the pending ones.
UpdateCmpRequest(req) ==
    /\ m' = storeRequest(m, req)
    /\ shown' = Append(shown, <<m'.a, m'.b>>)
    /\ UNCHANGED <<uiPc, uiSend, quitCmd, sent, quitsSeen, quitKey, idleKey>>

\* p.Send(cmpRequestMsg(req)) of the relay, which then selects again.
RelaySendReq ==
    /\ relayPc = "sendReq"
    /\ \/ uiPc = "loop" /\ UpdateCmpRequest(relayReq)
       \/ uiPc = "exited" /\ SendDropped
    /\ relayPc' = "select"
    /\ relayReq' = NoReq
    /\ UNCHANGED <<conVars, sortVars, sorterPc, sortDoneClosed, compClosed, collPc, collVal,
                   sortedReady, mainPc, ret>>

\* Where the relay goes after its p.Send(quitMsg{}): it returns.
relayAfterQuitLoops == "select"
relayAfterQuit == "done"

\* p.Send(quitMsg{}) of the relay, on either branch of its select.
RelaySendQuit ==
    /\ relayPc \in {"quitClosed", "quitDone"}
    /\ \/ uiPc = "loop" /\ UpdateQuitMsg
       \/ uiPc = "exited" /\ SendDropped
    /\ relayPc' = relayAfterQuit
    /\ UNCHANGED <<conVars, sortVars, sorterPc, sortDoneClosed, compClosed, collPc, collVal,
                   sortedReady, relayReq, mainPc, ret>>

\* The boolean a direction key stands for.
keyValue(key) == key \in {"left", "h"}

\* if m.req != nil
hasPendingAlways(mm) == TRUE
hasPending(mm) == mm.req # 0

\* Update(tea.KeyMsg) for a direction key: with a pending slot, begin the
\* send of the choice on it; without one, nothing.
UpdateDirectionKey(key) ==
    IF hasPending(m)
    THEN /\ uiPc' = "sending"
         /\ uiSend' = [id |-> m.req, val |-> keyValue(key)]
         /\ sent' = Append(sent, <<m.req, keyValue(key)>>)
         /\ UNCHANGED <<m, quitCmd, shown, quitsSeen, quitKey, idleKey>>
    ELSE /\ idleKey' = TRUE
         /\ UNCHANGED <<uiPc, uiSend, m, quitCmd, shown, sent, quitsSeen, quitKey>>

\* Update(tea.KeyMsg) for q or ctrl+c: return m, tea.Quit.
UpdateQuitKey ==
    /\ quitCmd' = TRUE
    /\ quitKey' = TRUE
    /\ UNCHANGED <<uiPc, m, uiSend, shown, sent, quitsSeen, idleKey>>

\* The event loop receives a key press and calls Update on it.
UIKey(key) ==
    /\ uiPc = "loop"
    /\ \/ key \in DirectionKeys /\ UpdateDirectionKey(key)
       \/ key \in QuitKeys /\ UpdateQuitKey
       \/ /\ key \notin DirectionKeys \cup QuitKeys
          /\ UNCHANGED <<uiPc, m, uiSend, quitCmd, shown, sent, quitsSeen, quitKey,
                         idleKey>>
    /\ UNCHANGED <<conVars, sortVars, sorterPc, sortDoneClosed, compClosed, collPc, collVal,
                   sortedReady, relayPc, relayReq, mainPc, ret>>

\* The event loop receives the QuitMsg of a tea.Quit command and ends; the
\* program's context is cancelled.
UIQuit ==
    /\ uiPc = "loop"
    /\ quitCmd
    /\ uiPc' = "exited"
    /\ UNCHANGED <<conVars, sortVars, sorterPc, sortDoneClosed, compClosed, collPc, collVal,
                   sortedReady, relayPc, relayReq, m, uiSend, quitCmd, mainPc, ret,
                   shown, sent, quitsSeen, quitKey, idleKey>>

\* p.Run() returns.
MainRunReturns ==
    /\ mainPc = "run"
    /\ uiPc = "exited"
    /\ mainPc' = "wait"
    /\ UNCHANGED <<conVars, sortVars, sorterPc, sortDoneClosed, compClosed, collPc, collVal,
                   sortedReady, relayPc, relayReq, uiPc, m, uiSend, quitCmd, ret,
                   shown, sent, quitsSeen, quitKey, idleKey>>

\* sorted := <-sortedReady; return sorted.
MainReturn ==
    /\ mainPc = "wait"
    /\ sortedReady # <<>>
    /\ ret' = Head(sortedReady)
    /\ sortedReady' = Tail(sortedReady)
    /\ mainPc' = "returned"
    /\ UNCHANGED <<conVars, sortVars, sorterPc, sortDoneClosed, compClosed, collPc, collVal,
                   relayPc, relayReq, uiPc, m, uiSend, quitCmd, shown, sent, quitsSeen,
                   quitKey, idleKey>>

SorterNext ==
    \/ SorterRun
    \/ SorterSendReq
    \/ SorterRecvReply
    \/ SorterDeliver
    \/ SorterCloseSortDone
    \/ SorterCloseComp

CollectorNext == CollectorReady \/ CollectorSendQuit

RelayNext == RelayCompClosed \/ RelaySortDone \/ RelaySendReq \/ RelaySendQuit

MainNext == MainRunReturns \/ MainReturn

Next ==
    \/ SorterNext
    \/ CollectorNext
    \/ RelayNext
    \/ \E key \in Keys : UIKey(key)
    \/ UIQuit
    \/ MainNext

Spec == TuiInit /\ [][Next]_vars

\* A run in which the user never presses a quit key.
NextNoQuitKey ==
    \/ SorterNext
    \/ CollectorNext
    \/ RelayNext
    \/ \E key \in Keys \ QuitKeys : UIKey(key)
    \/ UIQuit
    \/ MainNext

\* The user answers the comparison on display.
UIAnswer == \E key \in DirectionKeys : m.req # 0 /\ UIKey(key)

\* The steps that are not a key press without effect.
Progress == SorterNext \/ CollectorNext \/ RelayNext \/ UIQuit \/ MainNext \/ UIAnswer

\* Whenever some goroutine can take a step, or a comparison is on display,
\* one of these steps is eventually taken: the Go scheduler runs a runnable
\* goroutine, a delivered QuitMsg ends the loop, the user eventually answers.
SpecLive == TuiInit /\ [][NextNoQuitKey]_vars /\ WF_vars(Progress)

\* The same scheduling, with a user who may press the quit key.
SpecFair == TuiInit /\ [][Next]_vars /\ WF_vars(Progress)

(***************************************************************************)
(* main in console mode (main.go 89-104), from the call of                 *)
(* interactiveMergeSort on: the items came from -file or the command line, *)
(* so the input stream is still unread.  The user's input is a few lines   *)
(* out of InputLines, possibly followed by a last line without newline.    *)
(***************************************************************************)

MaxLines == 3

LineOne == <<"1", "\n">>
LineTwo == <<"2", "\n">>
LineBanana == <<"b", "a", "n", "a", "n", "a", "\n">>
LineQ == <<" ", "Q", "\n">>
LineQuit == <<"q", "u", "i", "t", "\n">>
LineExit == <<"E", "X", "I", "T", "\n">>

InputLines == {LineOne, LineTwo, LineBanana, LineQ, LineQuit, LineExit}

\* The streams of at most n lines.
RECURSIVE StreamsOf(_)
StreamsOf(n) ==
    IF n = 0
    THEN {<<>>}
    ELSE LET S == StreamsOf(n - 1)
         IN  S \cup {l \o str : l \in InputLines, str \in S}

\* The input streams: the last line may lack its newline.
Stdins == {str \o t : str \in StreamsOf(MaxLines), t \in {<<>>, <<"2">>}}

ConsoleInit ==
    /\ items \in {list \in SeqsUpTo(MaxLen) : list # <<>> /\ Canonical(list)}
    /\ oracle = AnyAnswers
    /\ answers = <<>>
    /\ sorted = None
    /\ TuiStart
    /\ stdin \in Stdins
    /\ outPath \in BOOLEAN
    /\ MainStart

\* sorted := interactiveMergeSort(items): os.Exit inside askPreference ends
\* the process with its status, otherwise main goes on to print.
mainAfterSortPrints(run) == "print"
mainAfterSort(run) == IF run.st.exit # Running THEN "exited" ELSE "print"

ConsoleSort ==
    /\ conPc = "sort"
    /\ conRun' = interactiveMergeSort(items, stdin, ConsoleStart)
    /\ conPc' = mainAfterSort(conRun')
    /\ exitCode' = IF conPc' = "exited" THEN conRun'.st.exit ELSE exitCode
    /\ UNCHANGED <<sortVars, tuiVars, stdin, outPath, printed, written>>

\* The ranking is printed; without -o main returns (status 0).
ConsolePrint ==
    /\ conPc = "print"
    /\ printed' = conRun.out
    /\ IF outPath
       THEN conPc' = "write" /\ exitCode' = exitCode
       ELSE conPc' = "exited" /\ exitCode' = 0
    /\ UNCHANGED <<sortVars, tuiVars, stdin, outPath, conRun, written>>

\* writeResultToFile: the ranking is in the file and main returns, or the
\* file could not be created and the process ends with status 1.
ConsoleWrite(ok) ==
    /\ conPc = "write"
    /\ IF ok
       THEN written' = conRun.out /\ exitCode' = 0
       ELSE written' = written /\ exitCode' = 1
    /\ conPc' = "exited"
    /\ UNCHANGED <<sortVars, tuiVars, stdin, outPath, conRun, printed>>

ConsoleNext ==
    \/ ConsoleSort
    \/ ConsolePrint
    \/ \E ok \in BOOLEAN : ConsoleWrite(ok)

SpecConsole == ConsoleInit /\ [][ConsoleNext]_vars

(***************************************************************************)
(* Claims about the engine, checked under SpecSort.                        *)
(***************************************************************************)

Count(s, x) == Cardinality({k \in 1..Len(s) : s[k] = x})

IsPermutation(s, t) ==
    /\ Len(s) = Len(t)
    /\ \A k \in 1..Len(s) : s[k] \in Items
    /\ \A x \in Items : Count(s, x) = Count(t, x)

\* The console sort fed the same answers, typed as lines.
ConsoleRun == interactiveMergeSort(items, LinesOf(answers), ConsoleStart)

\* C1: whatever the oracle answers, the list mergeSortWithCmp returns, and the
\* list interactiveMergeSort returns on the same answers, is a permutation of
\* the input: same length, same number of occurrences of every item.
C1_OutputIsPermutation ==
    sorted # None =>
        /\ IsPermutation(sorted, items)
        /\ ConsoleRun.st.exit = Running
        /\ IsPermutation(ConsoleRun.out, items)

\* A finished sort of a full-length list with a repeated item, which the
\* answers reordered.
C1_Witness ==
    /\ sorted # None
    /\ oracle.kind = "any"
    /\ Len(items) = MaxLen
    /\ sorted # items
    /\ \E x \in Items : Count(items, x) >= 2

\* C2 (as amended): with an oracle that answers by a strict total order, no
\* item of the output is preferred over the item before it, and of two
\* adjacent items that differ the first is preferred over the second.
C2_SortedByOrder ==
    (sorted # None /\ oracle.kind = "order") =>
        \A k \in 1..(Len(sorted) - 1) :
            /\ ~prefer(oracle.rank, sorted[k + 1], sorted[k])
            /\ sorted[k] # sorted[k + 1] => prefer(oracle.rank, sorted[k], sorted[k + 1])

\* C2 as stated: prefer(out[k], out[k+1]) is true of every adjacent pair.
C2_AdjacentPreferred ==
    (sorted # None /\ oracle.kind = "order") =>
        \A k \in 1..(Len(sorted) - 1) : prefer(oracle.rank, sorted[k], sorted[k + 1])

\* A finished sort by an order of a full-length list of distinct items that
\* was not in order.
C2_Witness ==
    /\ sorted # None
    /\ oracle.kind = "order"
    /\ Len(items) = MaxLen
    /\ \A x \in Items : Count(items, x) <= 1
    /\ sorted # items

\* The least e with 2^e >= n, for n >= 1.
CeilLog2(n) == CHOOSE e \in 0..n : 2 ^ e >= n /\ \A d \in 0..(e - 1) : 2 ^ d < n

\* C3: a sort of n items issues at least max(0, n-1) and at most
\* n*ceil(log2(n)) comparisons; for n <= 1 it issues none and returns its input.
C3_ComparisonCount ==
    sorted # None =>
        LET n == Len(items)
            c == Len(Engine.st.calls)
        IN  /\ c >= (IF n >= 1 THEN n - 1 ELSE 0)
            /\ c <= (IF n >= 1 THEN n * CeilLog2(n) ELSE 0)
            /\ n <= 1 => (c = 0 /\ sorted = items)

\* A finished sort of three items that took three comparisons.
C3_Witness ==
    /\ sorted # None
    /\ Len(items) = 3
    /\ Len(Engine.st.calls) = 3

\* The place of an item that occurs once in s.
Pos(s, x) == CHOOSE k \in 1..Len(s) : s[k] = x

\* C12 as stated: the sort is stable.  Against a comparison on a key with
\* equal keys, two items the oracle prefers in neither order (and that occur
\* once each) come out in the relative order they had in the input.
C12_Stable ==
    (sorted # None /\ oracle.kind = "grade") =>
        \A p, q \in 1..Len(items) :
            (/\ p < q
             /\ Count(items, items[p]) = 1
             /\ Count(items, items[q]) = 1
             /\ ~preferGrade(oracle.rank, items[p], items[q])
             /\ ~preferGrade(oracle.rank, items[q], items[p]))
            => Pos(sorted, items[p]) < Pos(sorted, items[q])

\* The number of TRUE (of FALSE) among the first k answers.
Trues(ans, k) == Cardinality({n \in 1..k : ans[n]})
Falses(ans, k) == Cardinality({n \in 1..k : ~ans[n]})

\* What C17 says of the merge of left and right on the answers ans, given
\* the run r of the merge and the run rp of the same merge on the places
\* 1..Len(left) and Len(left)+1..Len(left)+Len(right) of the items.
MergeAsSpecified(left, right, ans, r, rp) ==
    LET n == Len(r.st.calls)
        done == IF r.st.halted THEN n - 1 ELSE n
    IN  /\ done <= Len(ans)
        /\ r.st.halted => done = Len(ans)
        \* the k-th call is made when both halves are non-empty, on their heads
        /\ \A k \in 1..n :
               /\ Trues(ans, k - 1) < Len(left)
               /\ Falses(ans, k - 1) < Len(right)
               /\ r.st.calls[k] = <<left[Trues(ans, k - 1) + 1],
                                    right[Falses(ans, k - 1) + 1]>>
        /\ ~r.st.halted =>
               \* one call per item emitted while both halves are non-empty
               /\ \A k \in 1..done :
                      r.out[k] = IF ans[k] THEN r.st.calls[k][1] ELSE r.st.calls[k][2]
               \* then one half is exhausted and the rest comes without a call
               /\ Trues(ans, done) = Len(left) \/ Falses(ans, done) = Len(right)
               /\ Len(r.out) = Len(left) + Len(right)
               /\ SubSeq(r.out, done + 1, Len(r.out)) =
                      SubSeq(left, Trues(ans, done) + 1, Len(left))
                      \o SubSeq(right, Falses(ans, done) + 1, Len(right))
               \* each half keeps its order
               /\ ~rp.st.halted
               /\ SelectSeq(rp.out, LAMBDA x : x <= Len(left)) =
                      [k \in 1..Len(left) |-> k]
               /\ SelectSeq(rp.out, LAMBDA x : x > Len(left)) =
                      [k \in 1..Len(right) |-> Len(left) + k]
               /\ r.out = [k \in 1..Len(rp.out) |-> (left \o right)[rp.out[k]]]

\* C17: for every split of the input list into a left and a right part, the
\* merge of the two parts on the answers given so far, by mergeWithCmp and
\* by interactiveMerge, is as specified.
C17_MergeProtocol ==
    \A p \in 0..Len(items) :
        LET left == SubSeq(items, 1, p)
            right == SubSeq(items, p + 1, Len(items))
            places == [k \in 1..Len(items) |-> k]
            r == mergeWithCmp(left, right, answers, NoCalls)
            rp == mergeWithCmp(SubSeq(places, 1, p), SubSeq(places, p + 1, Len(items)),
                               answers, NoCalls)
            c == interactiveMerge(left, right, LinesOf(answers), ConsoleStart)
        IN  /\ MergeAsSpecified(left, right, answers, r, rp)
            /\ c.st.calls = r.st.calls
            /\ r.st.halted = (c.st.exit # Running)
            /\ ~r.st.halted => c.out = r.out

\* The merge of the first two items with the third, all different, took one
\* call, answered "prefer B": the third item came first and the left part
\* followed without a call.
C17_Witness ==
    /\ items = <<1, 2, 3>>
    /\ answers = <<FALSE>>
    /\ LET r == mergeWithCmp(<<1, 2>>, <<3>>, answers, NoCalls)
       IN  /\ ~r.st.halted
           /\ r.st.calls = <<<<1, 3>>>>
           /\ r.out = <<3, 1, 2>>

\* The segments lo..hi of the input that mergeSortWithCmp splits (those of
\* two places or more, from the whole input down).
RECURSIVE Splits(_, _)
Splits(lo, hi) ==
    IF hi - lo + 1 <= 1
    THEN {}
    ELSE LET mid == (hi - lo + 1) \div 2
         IN  {<<lo, hi>>} \cup Splits(lo, lo + mid - 1) \cup Splits(lo + mid, hi)

\* The engine's run on the places 1..Len(items) instead of the items.
PlacesRun == mergeSortWithCmp([k \in 1..Len(items) |-> k], answers, NoCalls)

\* C18: in every call prefer(A,B), A stood at an earlier place of the input
\* than B: A is from the left half and B from the right half of a segment
\* the sort splits at len/2.  For an input of two items the one call is
\* prefer(X,Y), and the answer false yields [Y,X].
C18_LeftBeforeRight ==
    /\ Len(Engine.st.calls) = Len(PlacesRun.st.calls)
    /\ \A k \in 1..Len(PlacesRun.st.calls) :
           LET a == PlacesRun.st.calls[k][1]
               b == PlacesRun.st.calls[k][2]
           IN  /\ a < b
               /\ Engine.st.calls[k] = <<items[a], items[b]>>
               /\ \E seg \in Splits(1, Len(items)) :
                      LET mid == (seg[2] - seg[1] + 1) \div 2
                      IN  /\ seg[1] <= a /\ a < seg[1] + mid
                          /\ seg[1] + mid <= b /\ b <= seg[2]
    /\ Len(items) = 2 =>
           /\ Engine.st.calls = <<<<items[1], items[2]>>>>
           /\ (sorted # None /\ answers = <<FALSE>>) => sorted = <<items[2], items[1]>>
           /\ (sorted # None /\ answers = <<TRUE>>) => sorted = items

\* The sort of [X,Y] has returned [Y,X] on the answer false.
C18_Witness ==
    /\ Len(items) = 2
    /\ items[1] # items[2]
    /\ answers = <<FALSE>>
    /\ sorted = <<items[2], items[1]>>

(***************************************************************************)
(* Claims about console mode, checked under SpecConsole.                   *)
(***************************************************************************)

\* The lines of a stream, the last one possibly without newline.
RECURSIVE SplitLines(_)
SplitLines(stream) ==
    IF stream = <<>>
    THEN <<>>
    ELSE LET r == ReadString(stream, 1)
         IN  <<r.line>> \o SplitLines(SubSeq(stream, r.pos, Len(stream)))

RECURSIVE Join(_)
Join(lines) == IF lines = <<>> THEN <<>> ELSE Head(lines) \o Join(Tail(lines))

IsInvalidLine(l) == l = LineBanana
IsValidLine(l) == l # LineBanana

\* The stream without its lines that are no answer and no quit word.
WithoutInvalid(stream) == Join(SelectSeq(SplitLines(stream), IsValidLine))

\* The lines the console sort has read.
LinesRead == SplitLines(SubSeq(stdin, 1, conRun.st.pos - 1))

\* C13 as stated: on the lines "1", "banana", "2" a single comparison
\* prompts twice, resolves to prefer B and consumes the three lines.
C13_AsStated ==
    (conPc # "sort" /\ Len(items) = 2 /\ stdin = LineOne \o LineBanana \o LineTwo) =>
        /\ conRun.st.prompts = 2
        /\ conRun.out = <<items[2], items[1]>>
        /\ conRun.st.pos = Len(stdin) + 1

\* C13 (as amended): on the lines "banana", "2" a single comparison prompts
\* twice, resolves to prefer B and consumes both lines; on the lines "1",
\* "banana", "2" it resolves to prefer A at the first prompt and consumes
\* the first line only; and in every run the invalid lines read change
\* nothing but the number of prompts: the comparisons asked, the result and
\* the exit status are those of the run on the stream without them.
C13_InvalidReprompts ==
    conPc # "sort" =>
        /\ (Len(items) = 2 /\ stdin = LineBanana \o LineTwo) =>
            /\ conRun.st.prompts = 2
            /\ conRun.st.calls = <<<<items[1], items[2]>>>>
            /\ conRun.out = <<items[2], items[1]>>
            /\ conRun.st.pos = Len(stdin) + 1
        /\ (Len(items) = 2 /\ stdin = LineOne \o LineBanana \o LineTwo) =>
            /\ conRun.st.prompts = 1
            /\ conRun.st.calls = <<<<items[1], items[2]>>>>
            /\ conRun.out = items
            /\ conRun.st.pos = Len(LineOne) + 1
        /\ LET clean == interactiveMergeSort(items, WithoutInvalid(stdin), ConsoleStart)
           IN  /\ conRun.out = clean.out
               /\ conRun.st.calls = clean.st.calls
               /\ conRun.st.exit = clean.st.exit
               /\ conRun.st.prompts =
                      clean.st.prompts + Len(SelectSeq(LinesRead, IsInvalidLine))

\* A single comparison was resolved to prefer B after one invalid line.
C13_Witness ==
    /\ conPc # "sort"
    /\ stdin = LineBanana \o LineTwo
    /\ conRun.st.prompts = 2
    /\ conRun.out = <<2, 1>>

QuitLines == {LineQ, LineQuit, LineExit}

\* The complete lines of the input up to its first quit word.
BeforeQuit ==
    LET lines == SplitLines(stdin)
        stop == {k \in 1..Len(lines) : lines[k] \in QuitLines}
        last == IF stop = {} THEN Len(lines)
                ELSE (CHOOSE k \in stop : \A k2 \in stop : k <= k2) - 1
    IN  SubSeq(lines, 1, last)

HasQuitLine == \E k \in 1..Len(SplitLines(stdin)) : SplitLines(stdin)[k] \in QuitLines

IsAnswerLine(l) == l \in {LineOne, LineTwo}

\* The answers typed before the first quit word, as booleans.
TypedAnswers ==
    LET typed == SelectSeq(BeforeQuit, IsAnswerLine)
    IN  [k \in 1..Len(typed) |-> typed[k] = LineOne]

\* The sort needs more answers than were typed before the first quit word.
InputRunsOut == mergeSortWithCmp(items, TypedAnswers, NoCalls).st.halted

\* C14: when a comparison reads a quit word (" Q", "quit", "EXIT") the
\* process ends with status 0, when a read fails (the input ends before the
\* sort has its answers) it ends with status 1, and in both cases, at
\* whatever comparison it happens, nothing is ever printed or written; a
\* sort that got all its answers is not aborted.
C14_AbortedSortNoRanking ==
    conPc # "sort" =>
        /\ (InputRunsOut /\ HasQuitLine) => conRun.st.exit = 0
        /\ (InputRunsOut /\ ~HasQuitLine) => conRun.st.exit = 1
        /\ ~InputRunsOut => conRun.st.exit = Running
        /\ conRun.st.exit # Running =>
            /\ conPc = "exited"
            /\ exitCode = conRun.st.exit
            /\ printed = None
            /\ written = None

\* A sort of three items was aborted by "EXIT" at its third comparison,
\* with the -o flag given.
C14_Witness ==
    /\ conPc = "exited"
    /\ outPath
    /\ exitCode = 0
    /\ Len(conRun.st.calls) = 3
    /\ LinesRead[Len(LinesRead)] = LineExit
    /\ printed = None

\* A sort was aborted by a failed read at its second comparison.
C14_WitnessReadError ==
    /\ conPc = "exited"
    /\ exitCode = 1
    /\ Len(conRun.st.calls) = 2
    /\ conRun.st.exit = 1

(***************************************************************************)
(* Claims about RunTUI, checked under Spec (and SpecLive for C5).          *)
(***************************************************************************)

IsPrefix(s, t) == Len(s) <= Len(t) /\ SubSeq(t, 1, Len(s)) = s

\* All goroutines of RunTUI have ended and RunTUI has returned.
Terminated ==
    /\ sorterPc = "done"
    /\ collPc = "done"
    /\ relayPc = "done"
    /\ uiPc = "exited"
    /\ mainPc = "returned"

\* C4: the pairs Update is given are, in order, the pairs the console sort
\* asks when it reads the same answers; every answered comparison was shown;
\* and when RunTUI returns, all of the console sort's questions were shown
\* and the list returned is the console sort's result.
C4_AsyncMatchesSync ==
    /\ IsPrefix(shown, ConsoleRun.st.calls)
    /\ Len(shown) >= Len(answers)
    /\ ret # None =>
        /\ ConsoleRun.st.exit = Running
        /\ shown = ConsoleRun.st.calls
        /\ ret = ConsoleRun.out

\* RunTUI has returned a reordered list after three comparisons.
C4_Witness ==
    /\ ret # None
    /\ Len(shown) = 3
    /\ ret # items

\* C5: when the user never presses a quit key and answers every comparison
\* on display, eventually the sorter, the collector, the relay and the event
\* loop have ended and RunTUI has returned the sorter's complete result.
C5_SortCompletes ==
    <>(Terminated /\ sorted # None /\ ret = sorted /\ IsPermutation(ret, items))

\* A run without quit key that ended after at least two answers.
C5_Witness ==
    /\ Terminated
    /\ ~quitKey
    /\ Len(answers) >= 2
    /\ ret = sorted

\* C6 as stated: the sorter is never left waiting on the reply slot of a
\* request that can no longer be answered (the event loop has ended).
C6_RequestNeverAbandoned == sorterPc = "recv" => uiPc # "exited"

\* C7 as stated: once the user has quit with the quit key, the run does not
\* come to rest with a goroutine or the launching thread still blocked.
C7_NoLeakAfterQuit == (quitKey /\ ~ENABLED Next) => Terminated

\* C8 (as amended): the event loop is given at most two quit events, and at
\* least one, once the collector and the relay have both sent theirs, unless
\* the user pressed the quit key.
C8_QuitEvents ==
    /\ quitsSeen <= 2
    /\ (collPc = "done" /\ relayPc = "done" /\ ~quitKey) => quitsSeen >= 1

\* C8 as stated: once the collector and the relay have sent their quit
\* events, exactly one has reached the event loop.
C8_ExactlyOneQuit == (collPc = "done" /\ relayPc = "done") => quitsSeen = 1

\* Both quit events reached the event loop, the relay's by either branch
\* of its select, in a run without quit key.
C8_Witness ==
    /\ collPc = "done"
    /\ relayPc = "done"
    /\ ~quitKey
    /\ quitsSeen = 2

\* The places that hold a request: the sorter handing it off, the relay
\* forwarding it, the model's pending slot.
Holders ==
    (IF sorterPc = "send" THEN {<<"sorter", curReq.id>>} ELSE {})
    \cup (IF relayPc = "sendReq" THEN {<<"relay", relayReq.id>>} ELSE {})
    \cup (IF m.req # 0 THEN {<<"ui", m.req>>} ELSE {})

\* C9: at most one request is held anywhere, the request held is not yet
\* answered, and a request on its way to Update finds no pending slot.
C9_OnePendingRequest ==
    /\ Cardinality(Holders) <= 1
    /\ \A h \in Holders : h[2] = Len(answers) + 1
    /\ relayPc = "sendReq" => m.req = 0

\* A second request is pending in the model after the first was answered.
C9_Witness ==
    /\ m.req # 0
    /\ Len(answers) >= 1
    /\ uiPc = "loop"

\* C10: no reply slot is sent on twice, none is sent on without a request
\* (slot 0 is nil), at most one send per request shown, and once a send has
\* completed the pending slot is not one that was sent on.
C10_ReplyAtMostOnce ==
    /\ \A i, j \in 1..Len(sent) : i # j => sent[i][1] # sent[j][1]
    /\ \A i \in 1..Len(sent) : sent[i][1] # 0
    /\ Len(sent) <= Len(shown)
    /\ uiPc # "sending" => \A i \in 1..Len(sent) : sent[i][1] # m.req

\* Two replies were sent, a direction key was pressed with nothing pending,
\* and no request is pending.
C10_Witness ==
    /\ Len(sent) >= 2
    /\ idleKey
    /\ m.req = 0
    /\ uiPc = "loop"

\* The prefer calls the sorter has made so far: the call a sorter that is
\* still running towards has not been made yet.
issued ==
    IF sorterPc = "sort"
    THEN SubSeq(Sorter.st.calls, 1, Len(answers))
    ELSE Sorter.st.calls

\* The requests made but not yet handed to the event loop.
inFlight == IF sorterPc = "send" \/ relayPc = "sendReq" THEN 1 ELSE 0

\* C11: the k-th request Update handles is the k-th prefer call of the
\* sorter, pair and reply slot; the request the relay forwards is the last
\* call made; and while the event loop runs, every call made has been
\* handled except the one still on its way.
C11_RequestsInOrder ==
    /\ IsPrefix(shown, issued)
    /\ m.req # 0 => (m.req = Len(shown) /\ <<m.a, m.b>> = issued[m.req])
    /\ relayPc = "sendReq" =>
        (relayReq.id = Len(issued) /\ <<relayReq.A, relayReq.B>> = issued[relayReq.id])
    /\ uiPc # "exited" => Len(shown) + inFlight = Len(issued)

\* The third request is on display, with a pair that differs from the pair
\* of the first request, while the event loop is running.
C11_Witness ==
    /\ uiPc = "loop"
    /\ m.req = 3
    /\ Len(shown) = 3
    /\ shown[3] # shown[1]

\* C15: RunTUI has returned exactly when it has a value; the value is the
\* complete output of the sorter's finished sort (every comparison of it
\* answered, a permutation of the input), delivered by the sorter before;
\* and the only value ever made ready for it is that output.
C15_ReturnsCompleteResult ==
    /\ (mainPc = "returned") = (ret # None)
    /\ mainPc = "returned" =>
        /\ sorterPc \in {"closeSortDone", "closeComp", "done"}
        /\ ~Sorter.st.halted
        /\ Len(Sorter.st.calls) = Len(answers)
        /\ ret = Sorter.out
        /\ ret = sorted
        /\ Len(ret) = Len(items)
    /\ sortedReady # <<>> => (sorted # None /\ sortedReady = <<sorted>>)

\* RunTUI has returned a reordered list although the quit key was pressed
\* (after the last answer).
C15_Witness ==
    /\ mainPc = "returned"
    /\ quitKey
    /\ Len(answers) >= 2
    /\ ret # items

\* C16: a reply being sent is on the slot of the request the sorter is
\* blocked on, the request on display; the boolean the k-th prefer call
\* returned is the one sent on the slot of the k-th request; and the sorter
\* has gone past exactly the calls whose reply send has completed.
C16_ReplyForCurrentRequest ==
    /\ uiPc = "sending" =>
        /\ sorterPc = "recv"
        /\ uiSend.id = curReq.id
        /\ uiSend.id = Len(answers) + 1
        /\ <<m.a, m.b>> = <<curReq.A, curReq.B>>
    /\ \A k \in 1..Len(answers) : sent[k] = <<k, answers[k]>>
    /\ Len(sent) = Len(answers) + (IF uiPc = "sending" THEN 1 ELSE 0)

\* The reply to the second request is being sent, with the other value
\* than the reply to the first.
C16_Witness ==
    /\ uiPc = "sending"
    /\ uiSend.id = 2
    /\ Len(answers) = 1
    /\ uiSend.val # answers[1]

\* A quit event has been, or is about to be, injected by the collector or
\* the relay.
QuitInjected ==
    \/ collPc \in {"sendQuit", "done"}
    \/ relayPc \in {"quitClosed", "quitDone", "done"}
    \/ quitsSeen > 0

\* The sorter has handed its final ranking to the collector.
RankingHandedOver ==
    /\ sorterPc \in {"closeSortDone", "closeComp", "done"}
    /\ collPc \in {"ready", "sendQuit", "done"}
    /\ sorted # None
    /\ collVal = sorted

\* C19: a quit event is injected only after the sorter has handed its final
\* ranking to the collector, the collector injects its own only after it
\* has made the ranking ready for the launching thread, and whenever the
\* event loop has ended after an injected quit, RunTUI eventually returns.
C19_QuitAfterRanking ==
    /\ [](QuitInjected => RankingHandedOver)
    /\ [](collPc \in {"sendQuit", "done"} => (sortedReady = <<sorted>> \/ ret = sorted))
    /\ (uiPc = "exited" /\ quitsSeen > 0) ~> (mainPc = "returned" /\ ret = sorted)

\* The relay's quit event ended the event loop while the collector has not
\* yet made the ranking ready.
C19_Witness ==
    /\ uiPc = "exited"
    /\ quitsSeen = 1
    /\ ~quitKey
    /\ collPc = "ready"
    /\ sortedReady = <<>>

\* C20: whenever the model holds a pending reply slot, the sorter is
\* already blocked receiving on that slot; so a reply send that Update has
\* begun can be taken by the sorter at once, and it eventually completes,
\* the event loop going back to handling events.
C20_ReplySendCompletes ==
    /\ [](m.req # 0 => (sorterPc = "recv" /\ curReq.id = m.req))
    /\ [](uiPc = "sending" => ENABLED SorterRecvReply)
    /\ (uiPc = "sending") ~> (uiPc = "loop" /\ m.req = 0)

\* Update is inside its third reply send, after it handled a directional
\* key with nothing pending.
C20_Witness ==
    /\ uiPc = "sending"
    /\ uiSend.id = 3
    /\ idleKey

====
